---- MODULE Spec2Model ----
(***************************************************************************)
(* State-machine model of the Flask ToDo application in src/app.py:        *)
(* the users and tasks tables, the cookie sessions, the request handlers   *)
(* (register, login, logout, dashboard, add, edit, delete, toggle) and the *)
(* hourly reminder job send_reminders.                                     *)
(*                                                                         *)
(* Time is counted in minutes.  A naive datetime is a number of minutes of *)
(* wall-clock time since an epoch day 0, 00:00; an aware datetime is a     *)
(* record [wall, off] whose instant is wall - off.                         *)
(***************************************************************************)
EXTENDS Integers, Sequences, FiniteSets, TLC

VARIABLES
    users,        \* the users table: a set of rows
    userSeq,      \* last value handed out by users_id_seq
    tasks,        \* the tasks table: a set of rows
    tasks0,       \* the tasks table as it was when the application started
    taskSeq,      \* last value handed out by tasks_id_seq
    titleColumn,  \* whether the tasks table carries a title column
    mailCreds,    \* MAIL_USERNAME and MAIL_PASSWORD are both set
    session,      \* per client, the Flask session's user_id: <<>> or <<id>>
    now,          \* the wall clock: current instant, minutes since epoch (UTC)
    pc,           \* per client, its request in flight: <<>> (none), or
                  \* <<locals>> of an edit or toggle request that is between
                  \* its SELECT and its UPDATE
    hist,         \* per client, what a specification records of its requests
    req,          \* the last request handled: its client and its route
    resp,         \* the response to it
    sent,         \* the mails the last handler handed to the mail transport
    scanLog       \* the runs of send_reminders so far, oldest first

vars == <<users, userSeq, tasks, tasks0, taskSeq, titleColumn, mailCreds, session,
          now, pc, hist, req, resp, sent, scanLog>>

----------------------------------------------------------------------------
\* Bounds of the model.

MaxUserSeq == 2
MaxTaskSeq == 2
MaxTicks == 2
MaxScans == 2

\* Program constants.

MinutesPerHour == 60
HoursPerDay == 24
TZOffsetMinutes == 330
SoonDays == 2
ReminderDays == 1
ScanIntervalHours == 1

Hour == MinutesPerHour
Day == HoursPerDay * MinutesPerHour

\* The clients are the sources of requests; each sends its next request when
\* its last one is answered, so as many requests run at a time as there are
\* clients.
Clients == {"c1", "c2"}

----------------------------------------------------------------------------
\* Values.

Null == <<>>
Some(v) == <<v>>
Val(o) == o[1]

Perms(S) ==
    {f \in [1..Cardinality(S) -> S] : \A i, j \in DOMAIN f : i # j => f[i] # f[j]}

\* str.strip(): leading and trailing blanks removed.
RECURSIVE LStrip(_)
LStrip(s) == IF s # <<>> /\ Head(s) = " " THEN LStrip(Tail(s)) ELSE s

RECURSIVE RStrip(_)
RStrip(s) ==
    IF s # <<>> /\ s[Len(s)] = " " THEN RStrip(SubSeq(s, 1, Len(s) - 1)) ELSE s

Strip(s) == RStrip(LStrip(s))

\* cast_bool on a BOOLEAN column: bool(int(v)).
CastBool(v) == (IF v THEN 1 ELSE 0) # 0

\* generate_password_hash / check_password_hash.
PasswordHash(p) == <<"hash", p>>
CheckPasswordHash(h, p) == h = PasswordHash(p)

\* datetime.strptime(due, "%Y-%m-%dT%H:%M") on a form value <<day, hour,
\* minute>>: a naive datetime, or ValueError (here Null) when a field is out
\* of range or missing; an empty value is no due date.
WellFormedDue(due) ==
    /\ Len(due) = 3
    /\ due[1] >= 0
    /\ due[2] \in 0..(HoursPerDay - 1)
    /\ due[3] \in 0..(MinutesPerHour - 1)

ParseDue(due) ==
    IF due = <<>> THEN Null
    ELSE IF WellFormedDue(due)
         THEN Some(due[1] * Day + due[2] * MinutesPerHour + due[3])
         ELSE Null

\* Aware datetimes.
Aware(wall, off) == [wall |-> wall, off |-> off]
Instant(a) == a.wall - a.off
UtcLocalize(naive) == Aware(naive, 0)
AsTimezoneTZ(a) == Aware(Instant(a) + TZOffsetMinutes, TZOffsetMinutes)
AwareLT(a, b) == Instant(a) < Instant(b)
AwareLE(a, b) == Instant(a) <= Instant(b)
PlusMinutes(a, m) == Aware(a.wall + m, a.off)
UtcNow == now

----------------------------------------------------------------------------
\* Requests and responses.

NoBody == [tasks |-> <<>>,
           stats |-> [total |-> 0, completed |-> 0, pending |-> 0,
                      overdue |-> 0, due_soon |-> 0]]

Redirect(to, flash) ==
    [status |-> "redirect", to |-> to, flash |-> flash, body |-> NoBody]
Page(name, flash) ==
    [status |-> "page", to |-> name, flash |-> flash, body |-> NoBody]
ServerError == [status |-> "error", to |-> "", flash |-> "", body |-> NoBody]

Req(c, op) == [client |-> c, op |-> op]

LoggedIn(c) == session[c] # Null

\* The client has no request in flight.
Idle(c) == pc[c] = Null

\* login_required: without a session the handler is not run.
LoginRequired(c, op) ==
    /\ ~LoggedIn(c)
    /\ resp' = Redirect("login", "")
    /\ sent' = <<>>
    /\ req' = Req(c, op)
    /\ UNCHANGED <<tasks0, users, userSeq, tasks, taskSeq, titleColumn, mailCreds,
                   session, now, pc, hist, scanLog>>

----------------------------------------------------------------------------
\* Accounts.

WelcomeMail(username, email) ==
    [to |-> email, kind |-> "welcome", description |-> <<>>,
     username |-> username, due |-> Null]

\* POST /register
Register(c, username_in, email_in, password, mailRaises) ==
    LET username == Strip(username_in)
        email == Strip(email_in)
        taken == \E u \in users : u.username = username \/ u.email = email
        row == [id |-> userSeq + 1, username |-> username, email |-> email,
                password |-> PasswordHash(password)]
    IN
    /\ Idle(c)
    /\ req' = Req(c, "register")
    /\ UNCHANGED <<tasks0, tasks, taskSeq, titleColumn, mailCreds, session,
                   now, pc, hist, scanLog>>
    /\ IF username = <<>> \/ email = <<>> \/ password = <<>>
       THEN /\ resp' = Page("register.html", "All fields are required.")
            /\ sent' = <<>>
            /\ UNCHANGED <<users, userSeq>>
       ELSE /\ userSeq < MaxUserSeq
            /\ userSeq' = userSeq + 1
            /\ IF taken
               THEN \* unique violation: rollback
                    /\ resp' = Page("register.html",
                                    "Username or email already exists.")
                    /\ sent' = <<>>
                    /\ UNCHANGED users
               ELSE /\ users' = users \cup {row}
                    /\ IF mailCreds /\ mailRaises
                       THEN \* mail.send raised after the commit
                            /\ resp' = Page("register.html",
                                            "Username or email already exists.")
                            /\ sent' = <<>>
                       ELSE /\ resp' = Redirect("login",
                                   "Registration successful! Check your email.")
                            /\ sent' = IF mailCreds
                                       THEN <<WelcomeMail(username, email)>>
                                       ELSE <<>>

\* POST /login
Login(c, username_in, password) ==
    LET username == Strip(username_in)
        found == {u \in users : u.username = username}
    IN
    /\ Idle(c)
    /\ sent' = <<>>
    /\ req' = Req(c, "login")
    /\ UNCHANGED <<tasks0, users, userSeq, tasks, taskSeq, titleColumn, mailCreds,
                   now, pc, hist, scanLog>>
    /\ IF \E u \in found : CheckPasswordHash(u.password, password)
       THEN /\ session' = [session EXCEPT ![c] =
                              Some((CHOOSE u \in found : TRUE).id)]
            /\ resp' = Redirect("dashboard", "Login successful!")
       ELSE /\ resp' = Page("login.html", "Invalid username or password!")
            /\ UNCHANGED session

\* GET /logout
Logout(c) ==
    /\ Idle(c)
    /\ session' = [session EXCEPT ![c] = Null]
    /\ resp' = Redirect("login", "Logged out successfully!")
    /\ sent' = <<>>
    /\ req' = Req(c, "logout")
    /\ UNCHANGED <<tasks0, users, userSeq, tasks, taskSeq, titleColumn, mailCreds,
                   now, pc, hist, scanLog>>

----------------------------------------------------------------------------
\* Tasks.

TaskRow(id, uid, desc, due_ts) ==
    [id |-> id, user_id |-> uid, description |-> desc, due_date |-> due_ts,
     completed |-> FALSE]

\* The WHERE clause without its owner filter.
OwnedBy_AnyOwner(t, id, uid) == t.id = id

\* WHERE id = %s AND user_id = %s
OwnedBy(t, id, uid) == t.id = id /\ t.user_id = uid

\* SELECT ... FROM tasks WHERE user_id = %s
TasksOf(uid) == {t \in tasks : t.user_id = uid}

\* ORDER BY due_date IS NULL, due_date
OrderedBefore(a, b) ==
    \/ b.due_date = Null
    \/ a.due_date # Null /\ Val(a.due_date) <= Val(b.due_date)

\* The row sequences the dashboard's SELECT may return for a user: rows with
\* equal keys come in either order.
DashboardOrders(uid) ==
    {s \in Perms(TasksOf(uid)) :
        \A i, j \in DOMAIN s : i < j => OrderedBefore(s[i], s[j])}

\* The dashboard's overdue / due_soon decision for one row at instant n.
DashboardDue(r) == AsTimezoneTZ(UtcLocalize(Val(r.due_date)))

DashboardNow(n) == Aware(n + TZOffsetMinutes, TZOffsetMinutes)

SoonThreshold(n) == PlusMinutes(DashboardNow(n), SoonDays * Day)

DashboardFlags(r, n) ==
    LET completed == CastBool(r.completed) IN
    IF r.due_date # Null /\ ~completed
    THEN IF AwareLT(DashboardDue(r), DashboardNow(n))
         THEN [overdue |-> TRUE, due_soon |-> FALSE]
         ELSE IF AwareLE(DashboardDue(r), SoonThreshold(n))
              THEN [overdue |-> FALSE, due_soon |-> TRUE]
              ELSE [overdue |-> FALSE, due_soon |-> FALSE]
    ELSE [overdue |-> FALSE, due_soon |-> FALSE]

DashboardEntry(r, n) ==
    [id |-> r.id, description |-> r.description,
     completed |-> CastBool(r.completed), due_date |-> r.due_date,
     overdue |-> DashboardFlags(r, n).overdue,
     due_soon |-> DashboardFlags(r, n).due_soon]

\* completed_cnt, overdue_cnt and due_soon_cnt: one is added per row that sets
\* the flag.
CountCompleted(entries) ==
    Cardinality({i \in DOMAIN entries : entries[i].completed})
CountOverdue(entries) ==
    Cardinality({i \in DOMAIN entries : entries[i].overdue})
CountDueSoon(entries) ==
    Cardinality({i \in DOMAIN entries : entries[i].due_soon})

DashboardStats(entries) ==
    LET total == Len(entries)
        completed_cnt == CountCompleted(entries)
    IN [total |-> total,
        completed |-> completed_cnt,
        pending |-> IF total - completed_cnt > 0 THEN total - completed_cnt
                    ELSE 0,
        overdue |-> CountOverdue(entries),
        due_soon |-> CountDueSoon(entries)]

Render(rows, n) ==
    LET entries == [i \in DOMAIN rows |-> DashboardEntry(rows[i], n)]
    IN [tasks |-> entries, stats |-> DashboardStats(entries)]

\* GET /dashboard
Dashboard(c) ==
    /\ Idle(c)
    /\ IF ~LoggedIn(c) THEN LoginRequired(c, "dashboard")
       ELSE
          /\ \E rows \in DashboardOrders(Val(session[c])) :
               resp' = [status |-> "page", to |-> "index.html", flash |-> "",
                        body |-> Render(rows, now)]
          /\ sent' = <<>>
          /\ req' = Req(c, "dashboard")
          /\ UNCHANGED <<tasks0, users, userSeq, tasks, taskSeq, titleColumn, mailCreds,
                         session, now, pc, hist, scanLog>>

\* POST /add
AddTask(c, desc_in, due_in) ==
    /\ Idle(c)
    /\ IF ~LoggedIn(c) THEN LoginRequired(c, "add")
       ELSE
          LET desc == Strip(desc_in)
              due_ts == ParseDue(due_in)
          IN
          /\ sent' = <<>>
          /\ req' = Req(c, "add")
          /\ UNCHANGED <<tasks0, users, userSeq, titleColumn, mailCreds, session, now,
                         pc, hist, scanLog>>
          /\ IF desc = <<>>
             THEN /\ resp' = Redirect("dashboard", "Task description is required.")
                  /\ UNCHANGED <<tasks, taskSeq>>
             ELSE IF ~titleColumn
                  THEN \* INSERT names a column the table does not have
                       /\ resp' = ServerError
                       /\ UNCHANGED <<tasks, taskSeq>>
                  ELSE /\ taskSeq < MaxTaskSeq
                       /\ taskSeq' = taskSeq + 1
                       /\ tasks' = tasks \cup
                            {TaskRow(taskSeq + 1, Val(session[c]), desc, due_ts)}
                       /\ resp' = Redirect("dashboard", "Task added successfully!")

Pending == [status |-> "pending", to |-> "", flash |-> "", body |-> NoBody]

\* The local variables of an edit or toggle request between its statements.
InFlight(op, uid, task_id, desc, due_ts, new_status) ==
    Some([op |-> op, uid |-> uid, task_id |-> task_id, desc |-> desc,
          due_ts |-> due_ts, new_status |-> new_status])

\* POST /edit/<task_id>, up to and including its SELECT: the request answers
\* at once when it finds no row or no description, and otherwise goes on to
\* its UPDATE, other requests running in between.
EditRead(c, task_id, desc_in, due_in) ==
    /\ Idle(c)
    /\ IF ~LoggedIn(c) THEN LoginRequired(c, "edit")
       ELSE
          LET uid == Val(session[c])
              desc == Strip(desc_in)
              due_ts == ParseDue(due_in)
          IN
          /\ sent' = <<>>
          /\ req' = Req(c, "edit")
          /\ UNCHANGED <<tasks0, users, userSeq, tasks, taskSeq, titleColumn,
                         mailCreds, session, now, hist, scanLog>>
          /\ IF ~\E t \in tasks : OwnedBy(t, task_id, uid)
             THEN /\ resp' = Redirect("dashboard",
                                      "Task not found or unauthorized.")
                  /\ UNCHANGED pc
             ELSE IF desc = <<>>
                  THEN /\ resp' = Redirect("dashboard",
                                           "Task description is required.")
                       /\ UNCHANGED pc
                  ELSE /\ pc' = [pc EXCEPT ![c] =
                                   InFlight("edit", uid, task_id, desc, due_ts,
                                            FALSE)]
                       /\ resp' = Pending

\* The request runs its UPDATE on the rows that match now, commits and
\* answers.
EditWrite(c) ==
    /\ ~Idle(c)
    /\ Val(pc[c]).op = "edit"
    /\ LET p == Val(pc[c]) IN
       tasks' = {IF OwnedBy(t, p.task_id, p.uid)
                 THEN [t EXCEPT !.description = p.desc, !.due_date = p.due_ts]
                 ELSE t : t \in tasks}
    /\ pc' = [pc EXCEPT ![c] = Null]
    /\ resp' = Redirect("dashboard", "Task updated successfully!")
    /\ sent' = <<>>
    /\ req' = Req(c, "edit")
    /\ UNCHANGED <<tasks0, users, userSeq, taskSeq, titleColumn, mailCreds,
                   session, now, hist, scanLog>>

\* POST /delete ; task_id_in is the form field: <<>> or <<id>>
DeleteTask(c, task_id_in) ==
    /\ Idle(c)
    /\ IF ~LoggedIn(c) THEN LoginRequired(c, "delete")
       ELSE
          /\ sent' = <<>>
          /\ req' = Req(c, "delete")
          /\ UNCHANGED <<tasks0, users, userSeq, taskSeq, titleColumn, mailCreds,
                         session, now, pc, hist, scanLog>>
          /\ IF task_id_in = <<>>
             THEN /\ resp' = Redirect("dashboard", "Task ID not provided.")
                  /\ UNCHANGED tasks
             ELSE /\ tasks' = {t \in tasks :
                                 ~OwnedBy(t, Val(task_id_in), Val(session[c]))}
                  /\ resp' = Redirect("dashboard", "Task deleted successfully!")

\* POST /toggle/<task_id>, first statement:
\* SELECT completed FROM tasks WHERE id = %s AND user_id = %s
SelectCompleted(task_id, uid) == {t \in tasks : OwnedBy(t, task_id, uid)}

\* The new status without the negation of the value read.
NewStatus_AlwaysTrue(row) == CastBool(row.completed) \/ TRUE

NewStatus(row) == ~CastBool(row.completed)

\* second statement: UPDATE tasks SET completed = %s WHERE id = %s AND user_id = %s
UpdateCompleted(new_status, task_id, uid) ==
    {IF OwnedBy(t, task_id, uid) THEN [t EXCEPT !.completed = new_status] ELSE t :
        t \in tasks}

\* POST /toggle/<task_id>, up to and including its SELECT: the request
\* answers at once when it finds no row, and otherwise goes on to its UPDATE,
\* other requests running in between.  hist is left to the specification.
ToggleRead(c, task_id) ==
    /\ Idle(c)
    /\ IF ~LoggedIn(c) THEN LoginRequired(c, "toggle")
       ELSE
          LET uid == Val(session[c])
              found == SelectCompleted(task_id, uid)
          IN
          /\ sent' = <<>>
          /\ req' = Req(c, "toggle")
          /\ UNCHANGED <<tasks0, users, userSeq, tasks, taskSeq, titleColumn,
                         mailCreds, session, now, scanLog>>
          /\ IF found = {}
             THEN /\ resp' = Redirect("dashboard", "")
                  /\ UNCHANGED pc
             ELSE /\ pc' = [pc EXCEPT ![c] =
                              InFlight("toggle", uid, task_id, <<>>, Null,
                                       NewStatus(CHOOSE t \in found : TRUE))]
                  /\ resp' = Pending

\* The request runs its UPDATE, commits and answers.
ToggleWrite(c) ==
    /\ ~Idle(c)
    /\ Val(pc[c]).op = "toggle"
    /\ LET p == Val(pc[c]) IN
       tasks' = UpdateCompleted(p.new_status, p.task_id, p.uid)
    /\ pc' = [pc EXCEPT ![c] = Null]
    /\ resp' = Redirect("dashboard", "")
    /\ sent' = <<>>
    /\ req' = Req(c, "toggle")
    /\ UNCHANGED <<tasks0, users, userSeq, taskSeq, titleColumn, mailCreds,
                   session, now, scanLog>>

----------------------------------------------------------------------------
\* Reminders.

\* SELECT ... FROM tasks t JOIN users u ON t.user_id = u.id
\* WHERE t.due_date IS NOT NULL AND t.completed = FALSE
ReminderRows ==
    {[id |-> t.id, description |-> t.description, due_date |-> t.due_date,
      completed |-> t.completed, email |-> u.email, username |-> u.username] :
        <<t, u>> \in {p \in tasks \X users :
                        /\ p[1].user_id = p[2].id
                        /\ p[1].due_date # Null
                        /\ p[1].completed = FALSE}}

\* The branch send_reminders takes for a row at utcnow() = n.
ReminderKind(r, n) ==
    LET due_utc == UtcLocalize(Val(r.due_date))
        now_utc == UtcLocalize(n)
        delta == Instant(due_utc) - Instant(now_utc)
    IN IF 0 <= delta /\ delta <= ReminderDays * Day THEN "soon"
       ELSE IF AwareLT(due_utc, now_utc) THEN "overdue"
       ELSE "none"

ReminderMail(r, kind) ==
    [to |-> r.email, kind |-> kind, description |-> r.description,
     username |-> r.username, due |-> r.due_date]

\* The for loop from row i on: acc are the mails handed over so far; mail.send
\* raises for the rows whose id is in failing, and the exception leaves the
\* loop (raised_on names the row).
RECURSIVE ScanFrom(_, _, _, _, _)
ScanFrom(rows, i, n, failing, acc) ==
    IF i > Len(rows) THEN [sent |-> acc, raised_on |-> Null]
    ELSE LET r == rows[i]
             kind == ReminderKind(r, n)
         IN IF kind = "none" \/ ~mailCreds
            THEN ScanFrom(rows, i + 1, n, failing, acc)
            ELSE IF r.id \in failing
                 THEN [sent |-> acc, raised_on |-> Some(r.id)]
                 ELSE ScanFrom(rows, i + 1, n, failing,
                               Append(acc, ReminderMail(r, kind)))

\* One run of send_reminders, from the scheduler or from GET /test-reminder.
SendReminders(rows, failing) ==
    LET run == ScanFrom(rows, 1, UtcNow, failing, <<>>) IN
    /\ Len(scanLog) < MaxScans
    /\ scanLog' = Append(scanLog, [at |-> UtcNow, sent |-> run.sent,
                                   raised_on |-> run.raised_on])
    /\ sent' = run.sent
    /\ resp' = IF run.raised_on # Null THEN ServerError
               ELSE Page("Reminder emails attempted", "")
    /\ req' = Req("scheduler", "send_reminders")
    /\ UNCHANGED <<tasks0, users, userSeq, tasks, taskSeq, titleColumn, mailCreds,
                   session, now, pc, hist>>

\* The scheduler's interval passes.
Tick ==
    /\ now < Day + MaxTicks * ScanIntervalHours * Hour
    /\ now' = now + ScanIntervalHours * Hour
    /\ UNCHANGED <<tasks0, users, userSeq, tasks, taskSeq, titleColumn,
                   mailCreds, session, pc, hist, req,
                   resp, sent, scanLog>>

----------------------------------------------------------------------------
\* Inputs the requests are drawn from.

\* The username and email fields of the registration form: two accounts that
\* go together, one that shares its username with one and its email with the
\* other, and one with an empty email.
RegisterInputs == {<<<<"a", " ">>, <<"x">>>>, <<<<"b">>, <<"y">>>>,
                   <<<<"b">>, <<"x">>>>, <<<<"a", " ">>, <<>>>>}
UsernameInputs == {in[1] : in \in RegisterInputs}
PasswordInputs == {<<"p">>}
LoginPasswords == {<<"p">>, <<"q">>}
DescInputs == {<<"m", " ">>, <<" ">>}
\* day 1 00:00, and hour 24, which strptime rejects
DueInputs == {<<>>, <<1, 0, 0>>, <<1, 24, 0>>}
\* whether mail.send raises; without credentials it is not called
MailOutcomes == IF mailCreds THEN BOOLEAN ELSE {FALSE}
TaskIds == 1..MaxTaskSeq
TaskIdInputs == {<<>>} \cup {<<i>> : i \in TaskIds}

----------------------------------------------------------------------------
\* The application started on an empty database.  CREATE TABLE IF NOT EXISTS
\* keeps a tasks table that is already there, so the table either is the one
\* init_db creates (no title column) or an older one that has the column.

Init ==
    /\ users = {}
    /\ userSeq = 0
    /\ tasks = {}
    /\ tasks0 = tasks
    /\ taskSeq = 0
    /\ titleColumn \in BOOLEAN
    /\ mailCreds \in BOOLEAN
    /\ session = [c \in Clients |-> Null]
    /\ now = Day
    /\ pc = [c \in Clients |-> Null]
    /\ hist = [c \in Clients |-> Null]
    /\ req = Req("", "")
    /\ resp = Pending
    /\ sent = <<>>
    /\ scanLog = <<>>

Next ==
    \E c \in Clients :
        \/ \E in \in RegisterInputs, p \in PasswordInputs,
              mailRaises \in MailOutcomes :
                 Register(c, in[1], in[2], p, mailRaises)
        \/ \E u \in UsernameInputs, p \in LoginPasswords : Login(c, u, p)
        \/ Logout(c)
        \/ Dashboard(c)
        \/ \E d \in DescInputs, due \in DueInputs : AddTask(c, d, due)
        \/ \E i \in TaskIds, d \in DescInputs, due \in DueInputs :
              EditRead(c, i, d, due)
        \/ EditWrite(c)
        \/ \E i \in TaskIdInputs : DeleteTask(c, i)
        \/ \E i \in TaskIds : ToggleRead(c, i) /\ UNCHANGED hist
        \/ ToggleWrite(c) /\ UNCHANGED hist

Spec == Init /\ [][Next]_vars

----------------------------------------------------------------------------
\* The application started on a database that earlier runs have filled: two
\* accounts, and up to one task per id, the way add_task and toggle_task
\* leave rows (so the tasks table is one that add_task can insert into).

StoredUsers ==
    {[id |-> 1, username |-> <<"a">>, email |-> <<"x">>,
      password |-> PasswordHash(<<"p">>)],
     [id |-> 2, username |-> <<"b">>, email |-> <<"y">>,
      password |-> PasswordHash(<<"p">>)]}

StoredTasks(dues) ==
    LET Params == [user_id : {1, 2}, due : dues, completed : BOOLEAN]
    IN UNION {
         {{[TaskRow(i, g[i].user_id, <<"m">>, ParseDue(g[i].due))
              EXCEPT !.completed = g[i].completed] : i \in S} :
            g \in [S -> Params]} : S \in SUBSET TaskIds}

InitStored(dues) ==
    /\ users = StoredUsers
    /\ userSeq = 2
    /\ tasks \in StoredTasks(dues)
    /\ tasks0 = tasks
    /\ taskSeq = MaxTaskSeq
    /\ titleColumn = TRUE
    /\ mailCreds \in BOOLEAN
    /\ now = Day
    /\ pc = [c \in Clients |-> Null]
    /\ hist = [c \in Clients |-> Null]
    /\ req = Req("", "")
    /\ resp = Pending
    /\ sent = <<>>
    /\ scanLog = <<>>

\* Due dates around the thresholds of the dashboard and of the reminder job,
\* as entered in the form: day 1 00:00 (the starting instant read as UTC),
\* day 1 05:30 (the starting instant read as Asia/Kolkata), day 2 01:00 (25 h
\* later), day 2 06:00 (30 h later), day 3 01:00 (49 h later).
ScanDues == {<<>>, <<1, 0, 0>>, <<1, 5, 30>>, <<2, 1, 0>>, <<2, 6, 0>>,
             <<3, 1, 0>>}

InitScan ==
    /\ InitStored(ScanDues)
    /\ session = [c \in Clients |-> IF c = "c1" THEN Some(1) ELSE Some(2)]

NextScan ==
    \/ Tick
    \/ \E rows \in Perms(ReminderRows), failing \in SUBSET TaskIds :
          SendReminders(rows, failing)
    \/ \E c \in Clients : Dashboard(c)

SpecScan == InitScan /\ [][NextScan]_vars

\* Two toggle requests, one from each client, each logged in as one of the
\* two users.  hist records of a client's request the task it names, whether
\* its SELECT found the row, and whether no other request was between its
\* statements at that moment.
InitToggle ==
    /\ InitStored({<<>>, <<1, 0, 0>>})
    /\ session \in [Clients -> {Some(1), Some(2)}]

NextToggle ==
    \E c \in Clients :
        \/ \E i \in TaskIds :
              /\ hist[c] = Null
              /\ ToggleRead(c, i)
              /\ hist' = [hist EXCEPT ![c] =
                    Some([task_id |-> i,
                          found |-> SelectCompleted(i, Val(session[c])) # {},
                          alone |-> \A d \in Clients : Idle(d)])]
        \/ ToggleWrite(c) /\ UNCHANGED hist

SpecToggle == InitToggle /\ [][NextToggle]_vars

----------------------------------------------------------------------------
\* Claims checked under Spec.

Owns(uid, task_id) == \E t \in tasks : t.id = task_id /\ t.user_id = uid

\* A dashboard rendered for a client lists only rows of the tasks table whose
\* owner is the user of that client's session.
DashboardShowsOwnTasks ==
    (req'.op = "dashboard" /\ LoggedIn(req'.client)) =>
        \A i \in DOMAIN resp'.body.tasks :
            Owns(Val(session[req'.client]), resp'.body.tasks[i].id)

\* An edit, delete or toggle request leaves every row of an owner other than
\* the user of its session in the table as it is.
MutationsKeepOthersTasks ==
    req'.op \in {"edit", "delete", "toggle"} =>
        \A t \in tasks :
            (~LoggedIn(req'.client) \/ t.user_id # Val(session[req'.client]))
                => t \in tasks'

\* C1: owner isolation.  Whatever requests came before, the task list
\* rendered for a user holds only that user's tasks, and no edit, delete or
\* toggle request made under one user's session changes or removes a task of
\* another user.
C1_OwnerIsolation == [][DashboardShowsOwnTasks /\ MutationsKeepOthersTasks]_vars

\* Two users each own a task, and the last response is a dashboard that lists
\* one of the two tasks and not the other.
C1_Witness ==
    /\ \E t1, t2 \in tasks : t1.user_id # t2.user_id
    /\ req.op = "dashboard"
    /\ Len(resp.body.tasks) >= 1
    /\ \E t \in tasks : \A i \in DOMAIN resp.body.tasks :
          resp.body.tasks[i].id # t.id

RegistrationSucceeded ==
    Redirect("login", "Registration successful! Check your email.")

\* C3: registering an unused username and email persists the account and
\* answers with the success message also when sending the welcome mail raises.
C3_RegisterSurvivesMailFailure ==
    [][\A <<u, e>> \in RegisterInputs, p \in PasswordInputs :
         (/\ Strip(u) # <<>> /\ Strip(e) # <<>> /\ p # <<>>
          /\ ~\E r \in users : r.username = Strip(u) \/ r.email = Strip(e)
          /\ \E c \in Clients : Register(c, u, e, p, TRUE))
         => /\ \E r \in users' : r.username = Strip(u) /\ r.email = Strip(e)
            /\ resp' = RegistrationSucceeded]_vars

NotFoundFlash == "Task not found or unauthorized."

ReportsNotFound == resp'.flash = NotFoundFlash /\ tasks' = tasks

\* C4: an edit, delete or toggle request for a task id that the session's
\* user does not own answers NotFound and leaves the tasks table unchanged.
C4_NotFoundReported ==
    [][\A c \in Clients, i \in TaskIds :
         (Idle(c) /\ LoggedIn(c) /\ ~Owns(Val(session[c]), i)) =>
            /\ (\E d \in DescInputs, due \in DueInputs : EditRead(c, i, d, due))
                  => ReportsNotFound
            /\ DeleteTask(c, <<i>>) => ReportsNotFound
            /\ ToggleRead(c, i) => ReportsNotFound]_vars

\* C8: on the tasks table that init_db creates, an add request of a user
\* without tasks, with a non-empty description and a well-formed due date,
\* succeeds, and the user's task list is then that one task, not completed.
C8_CreateListRoundTrip ==
    [][\A c \in Clients, d \in DescInputs, due \in DueInputs :
         (/\ LoggedIn(c)
          /\ ~titleColumn
          /\ TasksOf(Val(session[c])) = {}
          /\ Strip(d) # <<>>
          /\ due # <<>> /\ WellFormedDue(due)
          /\ AddTask(c, d, due))
         => /\ resp' = Redirect("dashboard", "Task added successfully!")
            /\ \A rows \in DashboardOrders(Val(session[c]))' :
                  /\ Len(rows) = 1
                  /\ rows[1].description = Strip(d)
                  /\ rows[1].due_date = ParseDue(due)
                  /\ rows[1].completed = FALSE]_vars

----------------------------------------------------------------------------
\* Claims checked under SpecScan.

\* The classifier the design prescribes: a naive due date is wall-clock time
\* in the application's zone, Asia/Kolkata.
LocalWallClock(n) == n + TZOffsetMinutes
LocalDueInstant(naive) == naive - TZOffsetMinutes

RefOverdue(due_date, completed, n) ==
    due_date # Null /\ ~completed /\ LocalDueInstant(Val(due_date)) < n

RefDueSoon(due_date, completed, n, window) ==
    /\ due_date # Null /\ ~completed
    /\ n <= LocalDueInstant(Val(due_date))
    /\ LocalDueInstant(Val(due_date)) <= n + window

RefKind(t, n) ==
    IF RefOverdue(t.due_date, t.completed, n) THEN "overdue"
    ELSE IF RefDueSoon(t.due_date, t.completed, n, ReminderDays * Day) THEN "soon"
    ELSE "none"

EmailOf(t) == (CHOOSE u \in users : u.id = t.user_id).email

\* The mails of kind for a task with t's owner, description and due date.
MailsLike(mails, t, kind) ==
    {i \in DOMAIN mails :
        /\ mails[i].to = EmailOf(t)
        /\ mails[i].kind = kind
        /\ mails[i].description = t.description
        /\ mails[i].due = t.due_date}

TasksLike(t) ==
    {x \in tasks : /\ x.user_id = t.user_id
                   /\ x.description = t.description
                   /\ x.due_date = t.due_date}

\* C2: in a run of send_reminders, a dispatch that raises for one task does
\* not keep the mail of any other task that is due soon or overdue from being
\* handed to the mail transport.
C2_ScanSurvivesDispatchFailure ==
    [][\A rows \in Perms(ReminderRows), failing \in SUBSET TaskIds :
         (mailCreds /\ SendReminders(rows, failing)) =>
            \A r \in ReminderRows :
               (ReminderKind(r, now) # "none" /\ r.id \notin failing) =>
                  \E i \in DOMAIN sent' :
                     sent'[i] = ReminderMail(r, ReminderKind(r, now))]_vars

\* C5: every entry of a rendered dashboard carries the flags of the
\* prescribed classifier at the instant of the request (overdue iff due < now,
\* due_soon iff now <= due <= now + 48 h, both false without a due date or
\* when completed, never both), and the counts are the numbers of flags.
C5_DashboardMatchesClassifier ==
    [][\A c \in Clients :
         (LoggedIn(c) /\ Dashboard(c)) =>
            LET b == resp'.body IN
            /\ \A i \in DOMAIN b.tasks :
                  LET e == b.tasks[i] IN
                  /\ e.overdue = RefOverdue(e.due_date, e.completed, now)
                  /\ e.due_soon =
                        RefDueSoon(e.due_date, e.completed, now, SoonDays * Day)
                  /\ ~(e.overdue /\ e.due_soon)
            /\ b.stats.overdue =
                  Cardinality({i \in DOMAIN b.tasks : b.tasks[i].overdue})
            /\ b.stats.due_soon =
                  Cardinality({i \in DOMAIN b.tasks : b.tasks[i].due_soon})]_vars

\* C6: in a run of send_reminders in which no dispatch raises, every task
\* gets exactly one "overdue" mail to its owner if it is incomplete with
\* due < now, exactly one "due soon" mail if it is incomplete with
\* now <= due <= now + 24 h, and no mail otherwise.
C6_ScanMailsMatchClassifier ==
    [][\A rows \in Perms(ReminderRows) :
         (mailCreds /\ SendReminders(rows, {})) =>
            \A t \in tasks, kind \in {"overdue", "soon"} :
               Cardinality(MailsLike(sent', t, kind)) =
                  Cardinality({x \in TasksLike(t) : RefKind(x, now) = kind})]_vars

\* C7: a due date entered as local time T counts as overdue exactly when the
\* clock of the application's zone has passed T, on the dashboard and in the
\* reminder job alike.
C7_NaiveDueIsLocalTime ==
    [][/\ \A c \in Clients :
            (LoggedIn(c) /\ Dashboard(c)) =>
               \A i \in DOMAIN resp'.body.tasks :
                  LET e == resp'.body.tasks[i] IN
                  (e.due_date # Null /\ ~e.completed) =>
                     (e.overdue <=> Val(e.due_date) < LocalWallClock(now))
       /\ \A rows \in Perms(ReminderRows) :
            (mailCreds /\ SendReminders(rows, {})) =>
               \A r \in ReminderRows :
                  (\E i \in DOMAIN sent' : sent'[i] = ReminderMail(r, "overdue"))
                     <=> Val(r.due_date) < LocalWallClock(now)]_vars

\* The number of "overdue" mails for t in all runs so far.
RECURSIVE OverdueMailsInRuns(_, _)
OverdueMailsInRuns(log, t) ==
    IF log = <<>> THEN 0
    ELSE Cardinality(MailsLike(Head(log).sent, t, "overdue"))
            + OverdueMailsInRuns(Tail(log), t)

\* C9: no de-duplication.  A task that is incomplete and overdue, and stays
\* as it is, gets one "overdue" mail in every run of send_reminders: n mails
\* after n runs.  (Stated for a task that is overdue also when its due date is
\* read as UTC, that is the only task of its owner, description and due date,
\* and whose own dispatch never raised.)
C9_NoDeduplication ==
    (mailCreds /\ tasks = tasks0 /\ scanLog # <<>>) =>
        \A t \in tasks :
            (/\ ~t.completed /\ t.due_date # Null
             /\ Val(t.due_date) < scanLog[1].at
             /\ TasksLike(t) = {t}
             /\ \A i \in DOMAIN scanLog : scanLog[i].raised_on # Some(t.id))
            => OverdueMailsInRuns(scanLog, t) = Len(scanLog)

----------------------------------------------------------------------------
\* Claims checked under SpecToggle.

Answered(c) == hist[c] # Null /\ Idle(c)

\* Both clients' toggle requests were answered, and both were requests of the
\* owner for the same task.
BothToggled(task_id) ==
    \A c \in Clients :
        /\ Answered(c)
        /\ Val(hist[c]).found
        /\ Val(hist[c]).task_id = task_id

Restored(task_id) ==
    \E t \in tasks : t.id = task_id /\ t \in tasks0

\* Each request ran its SELECT when the other was not between its statements.
OneAfterTheOther == \A c \in Clients : Val(hist[c]).alone

\* C10 as stated: after two toggle requests of the owner on a task, however
\* their statements interleave, the row is as it was before them.
C10_ToggleTwiceRestoresAlways ==
    \A i \in TaskIds : BothToggled(i) => Restored(i)

\* C10, amended: after two toggle requests of the owner on a task that ran one
\* after the other, the row is as it was before them (completed flag,
\* description and due date).
C10_ToggleTwiceRestores ==
    \A i \in TaskIds : (BothToggled(i) /\ OneAfterTheOther) => Restored(i)

\* Two requests for the same task were answered one after the other.
C10_Witness ==
    \E i \in TaskIds : BothToggled(i) /\ OneAfterTheOther

====
